---- MODULE Spec2Model ----
(***************************************************************************)
(* Adreno idler (drivers/devfreq/adreno_idler.c): the idle-detection       *)
(* state kept in file-scope statics and the frequency decision taken by    *)
(* adreno_idler() once per devfreq load sample.                            *)
(*                                                                         *)
(* Frequencies are in MHz, times in milliseconds, busy/total times in the  *)
(* units of struct devfreq_dev_status.  One call of adreno_idler() is one  *)
(* atomic step taken at clock value `now`: both reads of get_time_inms()   *)
(* in a call return the same millisecond.                                  *)
(***************************************************************************)
EXTENDS Integers, Sequences, FiniteSets, TLC

\* ------------------------------------------------------------ tunables
\* Module parameters, at the defaults of the declarations the function reads
\* (idleworkload line 45, idlewaitms line 51, idlewait line 66,
\* downdifferenctial line 70); the second set of declarations in the file
\* (lines 53-58, 72-74) is not referenced by adreno_idler().
idleworkload == 5000
idlewaitms == 500
idlewait == 25
downdifferenctial == 20

\* ------------------------------------------------------------ bounds
\* The clock advances at most MaxTicks times, by one of ClockSteps each time.
MaxTicks == 2
\* The history counter `streak` saturates at MaxStreak under Spec and at
\* idlewait under SpecEvents.
MaxStreak == 2
ClockSteps == {250}
BootTimes == {1}

\* Load samples <<busy_time, total_time>> (busy_time <= total_time):
\* zero-length, idle and under the ratio, idle on the ratio's edge,
\* idle just under the workload threshold, non-idle on the threshold.
Samples == { <<0, 0>>, <<1000, 10000>>, <<2000, 10000>>,
             <<4999, 10000>>, <<5000, 10000>> }

\* Values a frequency cell can hold.
AnyFreq == {200, 400, 600}

\* The devfreq instances a caller can pass: freq_table is in descending
\* order, so freq_table[max_state - 1] is the floor.  C and D carry tables
\* with fewer than two entries.
Devfreqs ==
  { [name |-> "A", freq_table |-> <<600, 400, 200>>, max_state |-> 3],
    [name |-> "B", freq_table |-> <<600, 400>>,      max_state |-> 2],
    [name |-> "C", freq_table |-> <<200>>,           max_state |-> 1],
    [name |-> "D", freq_table |-> <<>>,              max_state |-> 0] }

DevNames == { d.name : d \in Devfreqs }

\* ------------------------------------------------------------ state
VARIABLES
  adreno_idler_active,  \* master switch (module parameter, lines 77-82)
  idle_lasttime,        \* static int64_t (line 91): 0 = unset, else start of idle run
  idlecount,            \* idle-event counter read at line 108, zeroed at line 126
  now,                  \* what get_time_inms() returns (lines 84-90)
  ticks,                \* number of clock advances so far
  streak,               \* history: consecutive idle samples seen by active calls
  allratio,             \* history: every sample of that run passed the ratio test
  last                  \* record of the most recent call of adreno_idler()

vars == <<adreno_idler_active, idle_lasttime, idlecount, now, ticks,
          streak, allratio, last>>

NoDev == [name |-> "-", freq_table |-> <<>>, max_state |-> 0]

NoCall ==
  [path |-> "none", active |-> FALSE, dev |-> NoDev, busy |-> 0, total |-> 0,
   suspended |-> FALSE, freq |-> 0, at |-> 0, pre_lasttime |-> 0,
   pre_count |-> 0, ret |-> 0, freq_out |-> 0, wrote |-> FALSE, oob |-> FALSE]

\* ------------------------------------------------------------ helpers
get_time_inms == now

\* Faulty variant: the master switch is ignored.
IsActiveAlways(sw) == TRUE

\* if (!adreno_idler_active) return 0;
IsActive(sw) == sw

\* stats.busy_time < idleworkload
IsIdle(busy) == busy < idleworkload

\* Faulty variant: the ratio test is left out.
RatioTestAlways(busy, total) == TRUE

\* stats.busy_time * 100 < stats.total_time * downdifferenctial
RatioTest(busy, total) == busy * 100 < total * downdifferenctial

\* Faulty variant: every idle sample restarts the idle run.
MarkIdleAlways(since, t) == t

\* Faulty variant: the start of the idle run is never recorded.
MarkIdleNever(since, t) == since

\* if (!idle_lasttime) idle_lasttime = get_time_inms();
MarkIdle(since, t) == IF since = 0 THEN t ELSE since

\* Faulty variant: one event too many is waited for.
EventTestOffByOne(cnt, busy, total) ==
  cnt > idlewait /\ RatioTest(busy, total)

\* idlecount >= idlewait && ratio
EventTest(cnt, busy, total) == cnt >= idlewait /\ RatioTest(busy, total)

\* Faulty variant: the time-based test never passes.
TimeTestNever(since, t, busy, total) == FALSE

\* Faulty variant: the wait must be strictly exceeded.
TimeTestStrict(since, t, busy, total) ==
  since + idlewaitms < t /\ RatioTest(busy, total)

\* idle_lasttime + idlewaitms <= get_time_inms() && ratio
TimeTest(since, t, busy, total) ==
  since + idlewaitms <= t /\ RatioTest(busy, total)

\* Faulty variant: the floor is read one entry too high.
FloorIndexOneUp(dev) == dev.max_state - 2

\* Faulty variant: the table is taken to be in ascending order.
FloorIndexAscending(dev) == 0

\* Faulty variant: the bump-up reads the floor entry.
BumpIndexFloor(dev) == dev.max_state - 1

\* Index of the floor and of the entry above it (C, zero-based).
FloorIndex(dev) == dev.max_state - 1
BumpIndex(dev) == dev.max_state - 2

InTable(dev, i) == i >= 0 /\ i < dev.max_state

\* devfreq->profile->freq_table[i]: inside the table the entry, outside it
\* whatever the memory next to the table holds.
TableRead(dev, i) ==
  IF InTable(dev, i) THEN {dev.freq_table[i + 1]} ELSE AnyFreq

Outcome(path, ret, fo, wrote, oob, since, cnt) ==
  [path |-> path, ret |-> ret, freq_out |-> fo, wrote |-> wrote,
   oob |-> oob, since |-> since, cnt |-> cnt]

\* ------------------------------------------------------------ branches
\* Master switch off: return 0, nothing touched.
BypassBranch(freq, since, cnt) ==
  { Outcome("bypass", 0, freq, FALSE, FALSE, since, cnt) }

\* busy_time < idleworkload
IdleBranch(dev, busy, total, freq, t, since, cnt) ==
  LET s1 == MarkIdle(since, t)
      oob == ~InTable(dev, FloorIndex(dev))
  IN { IF freq = low
         THEN Outcome("floor", 1, freq, FALSE, oob, s1, cnt)
       ELSE IF EventTest(cnt, busy, total)
         THEN Outcome("event", 1, freq, FALSE, oob, s1, cnt)
       ELSE IF TimeTest(s1, t, busy, total)
         THEN Outcome("time", 1, low2, TRUE, oob, s1, cnt)
       ELSE Outcome("defer", 0, freq, FALSE, oob, s1, cnt)
       : low \in TableRead(dev, FloorIndex(dev)),
         low2 \in TableRead(dev, FloorIndex(dev)) }

\* Faulty variant: the bump-up leaves the idle bookkeeping alone.
BumpBranchNoReset(dev, since, cnt) ==
  { Outcome("bump", 0, f, TRUE, ~InTable(dev, BumpIndex(dev)), since, cnt)
    : f \in TableRead(dev, BumpIndex(dev)) }

\* else: idlecount = 0; idle_lasttime = 0; *freq = freq_table[max_state - 2]
\* (since and cnt are the values the branch overwrites)
BumpBranch(dev, since, cnt) ==
  { Outcome("bump", 0, f, TRUE, ~InTable(dev, BumpIndex(dev)), 0, 0)
    : f \in TableRead(dev, BumpIndex(dev)) }

\* Faulty variant: the suspend branch also clears the idle bookkeeping.
SuspendBranchReset(dev, since, cnt) ==
  { Outcome("suspend", 1, low, TRUE, ~InTable(dev, FloorIndex(dev)), 0, 0)
    : low \in TableRead(dev, FloorIndex(dev)) }

\* Faulty variant: no suspend branch, a busy sample always takes the bump-up.
SuspendBranchMissing(dev, since, cnt) == BumpBranch(dev, since, cnt)

\* else if (state_suspended)
SuspendBranch(dev, since, cnt) ==
  { Outcome("suspend", 1, low, TRUE, ~InTable(dev, FloorIndex(dev)), since, cnt)
    : low \in TableRead(dev, FloorIndex(dev)) }

\* The outcomes of one call.
Decide(sw, dev, busy, total, suspended, freq, t, since, cnt) ==
  IF ~IsActive(sw) THEN BypassBranch(freq, since, cnt)
  ELSE IF IsIdle(busy) THEN IdleBranch(dev, busy, total, freq, t, since, cnt)
  ELSE IF suspended THEN SuspendBranch(dev, since, cnt)
  ELSE BumpBranch(dev, since, cnt)

\* ------------------------------------------------------------ actions
Init ==
  /\ adreno_idler_active \in BOOLEAN
  /\ idle_lasttime = 0
  /\ idlecount = 0
  /\ now \in BootTimes
  /\ ticks = 0
  /\ streak = 0
  /\ allratio = TRUE
  /\ last = NoCall

\* int adreno_idler(stats, devfreq, freq), with state_suspended as read.
adreno_idler(dev, busy, total, suspended, freq, cap) ==
  \E o \in Decide(adreno_idler_active, dev, busy, total, suspended, freq,
                  get_time_inms, idle_lasttime, idlecount) :
    /\ idle_lasttime' = o.since
    /\ idlecount' = o.cnt
    /\ last' = [path |-> o.path, active |-> adreno_idler_active, dev |-> dev,
                busy |-> busy, total |-> total, suspended |-> suspended,
                freq |-> freq, at |-> now, pre_lasttime |-> idle_lasttime,
                pre_count |-> idlecount, ret |-> o.ret,
                freq_out |-> o.freq_out, wrote |-> o.wrote, oob |-> o.oob]
    /\ streak' = IF o.path = "bypass" THEN streak
                 ELSE IF ~IsIdle(busy) THEN 0
                 ELSE IF streak < cap THEN streak + 1 ELSE streak
    /\ allratio' = IF o.path = "bypass" THEN allratio
                   ELSE IF ~IsIdle(busy) THEN TRUE
                   ELSE allratio /\ RatioTest(busy, total)
    /\ UNCHANGED <<adreno_idler_active, now, ticks>>

\* The governor calls adreno_idler() for one of the devices D with the
\* current frequency among F.
CallWith(D, F, cap) ==
  \E dev \in D, s \in Samples, suspended \in BOOLEAN, freq \in F :
    adreno_idler(dev, s[1], s[2], suspended, freq, cap)

Call == CallWith(Devfreqs, AnyFreq, MaxStreak)

\* A write to the adreno_idler_active module parameter.
SetActive ==
  /\ adreno_idler_active' = ~adreno_idler_active
  /\ UNCHANGED <<idle_lasttime, idlecount, now, ticks, streak, allratio, last>>

\* The kernel clock moves on.
Tick ==
  /\ ticks < MaxTicks
  /\ \E d \in ClockSteps : now' = now + d
  /\ ticks' = ticks + 1
  /\ UNCHANGED <<adreno_idler_active, idle_lasttime, idlecount, streak,
                 allratio, last>>

Next == Call \/ SetActive \/ Tick

Spec == Init /\ [][Next]_vars

\* One three-entry device sampled long enough for idlewait events.
EventDevs == { d \in Devfreqs : d.name = "A" }
EventFreqs == { 200, 600 }
CallEvents == CallWith(EventDevs, EventFreqs, idlewait)

NextEvents == CallEvents \/ SetActive \/ Tick

SpecEvents == Init /\ [][NextEvents]_vars

\* The declaration of idlecount is not in the file, so neither is its
\* value at the first call: SpecCount starts it anywhere around idlewait.
\* The well-formed devices are sampled.
CountInputs == { 0, idlewait - 1, idlewait, idlewait + 1 }
CountDevs == { d \in Devfreqs : d.max_state >= 2 }

InitCount ==
  /\ adreno_idler_active \in BOOLEAN
  /\ idle_lasttime = 0
  /\ idlecount \in CountInputs
  /\ now \in BootTimes
  /\ ticks = 0
  /\ streak = 0
  /\ allratio = TRUE
  /\ last = NoCall

CallCount == CallWith(CountDevs, AnyFreq, MaxStreak)

NextCount == CallCount \/ SetActive \/ Tick

SpecCount == InitCount /\ [][NextCount]_vars

\* The governor samples one three-entry device for ever and the kernel clock
\* keeps moving (up to the bound): both are weakly fair.
CallLive == CallWith(EventDevs, EventFreqs, MaxStreak)

NextLive == CallLive \/ SetActive \/ Tick

SpecLive ==
  Init /\ [][NextLive]_vars /\ WF_vars(CallLive) /\ WF_vars(Tick)

\* ------------------------------------------------------------ properties
\* What the properties say about the most recent call.
Called == last.path # "none"
ActiveCall == Called /\ last.active
SampleIdle == last.busy < idleworkload
SampleRatio == last.busy * 100 < last.total * downdifferenctial
HasFloor == Len(last.dev.freq_table) >= 1
HasBump == Len(last.dev.freq_table) >= 2
TableLowest == last.dev.freq_table[Len(last.dev.freq_table)]
TableSecondLowest == last.dev.freq_table[Len(last.dev.freq_table) - 1]
IdleSinceSet == idle_lasttime # 0
IdleSinceWasSet == last.pre_lasttime # 0

\* C1 (bypass): a call made with the master switch off returns 0, does not
\* write *freq, and leaves idle_lasttime and idlecount as they were.
C1_Bypass ==
  (Called /\ ~last.active) =>
    /\ last.ret = 0
    /\ ~last.wrote
    /\ last.freq_out = last.freq
    /\ idle_lasttime = last.pre_lasttime
    /\ idlecount = last.pre_count

\* A bypassed call made while an idle run was being timed, with an idle
\* sample at the floor (which an active call would have made final).
C1_Witness ==
  /\ Called /\ ~last.active
  /\ IdleSinceWasSet
  /\ SampleIdle /\ HasFloor /\ last.freq = TableLowest
  /\ last.ret = 0

\* C2 (suspend priority): an active call with busy_time >= idleworkload and
\* state_suspended set writes the floor frequency and returns 1, whatever the
\* idle bookkeeping, the current frequency and the clock are.
C2_SuspendPriority ==
  (ActiveCall /\ ~SampleIdle /\ last.suspended /\ HasFloor) =>
    /\ last.ret = 1
    /\ last.wrote
    /\ last.freq_out = TableLowest

\* A suspended busy sample taken above the floor while an idle run is timed.
C2_Witness ==
  /\ ActiveCall /\ ~SampleIdle /\ last.suspended /\ HasFloor
  /\ IdleSinceWasSet
  /\ last.freq # TableLowest
  /\ last.freq_out = TableLowest /\ last.ret = 1

\* C3 (streak reset): after an active call with busy_time >= idleworkload and
\* state_suspended clear, idlecount is 0 and idle_lasttime is unset.
C3_StreakReset ==
  (ActiveCall /\ ~SampleIdle /\ ~last.suspended) =>
    /\ idlecount = 0
    /\ idle_lasttime = 0

\* A busy, non-suspended sample that ends an idle run that was being timed.
C3_Witness ==
  /\ ActiveCall /\ ~SampleIdle /\ ~last.suspended
  /\ IdleSinceWasSet
  /\ ~IdleSinceSet

\* C4 (non-idle hint): an active call with a busy, non-suspended sample
\* writes the second-lowest table entry and returns 0, for every current
\* frequency and prior state.
C4_NonIdleHint ==
  (ActiveCall /\ ~SampleIdle /\ ~last.suspended /\ HasBump) =>
    /\ last.ret = 0
    /\ last.wrote
    /\ last.freq_out = TableSecondLowest

\* The hint given while the device runs above the second-lowest entry.
C4_Witness ==
  /\ ActiveCall /\ ~SampleIdle /\ ~last.suspended /\ HasBump
  /\ last.freq > TableSecondLowest
  /\ last.freq_out = TableSecondLowest /\ last.ret = 0

\* C5 (floor idempotence): an active call with an idle sample and *freq at
\* the floor returns 1 with *freq at the floor, whatever the prior state,
\* the clock, state_suspended and the ratio test are.
C5_FloorIdempotence ==
  (ActiveCall /\ SampleIdle /\ HasFloor /\ last.freq = TableLowest) =>
    /\ last.ret = 1
    /\ last.freq_out = TableLowest

\* An idle sample at the floor that fails the ratio test, taken suspended,
\* on the first sample of an idle run.
C5_Witness ==
  /\ ActiveCall /\ SampleIdle /\ HasFloor /\ last.freq = TableLowest
  /\ ~SampleRatio /\ last.suspended /\ ~IdleSinceWasSet
  /\ last.ret = 1

\* C6 (time-based confirmation): above the floor, an idle sample passing the
\* ratio test (a) taken from cleared state returns 0, writes nothing and sets
\* idle_lasttime to the time of the call; (b) taken idlewaitms or more after
\* idle_lasttime, with idlecount below idlewait, writes the floor and
\* returns 1.
C6_TimeConfirmation ==
  (ActiveCall /\ SampleIdle /\ SampleRatio /\ HasFloor
     /\ last.freq # TableLowest /\ last.pre_count < idlewait) =>
    /\ (~IdleSinceWasSet =>
          last.ret = 0 /\ ~last.wrote /\ idle_lasttime = last.at)
    /\ ((IdleSinceWasSet /\ last.at >= last.pre_lasttime + idlewaitms) =>
          last.ret = 1 /\ last.wrote /\ last.freq_out = TableLowest)

\* The confirming call, exactly idlewaitms after the run began.
C6_Witness ==
  /\ ActiveCall /\ SampleIdle /\ SampleRatio /\ HasFloor
  /\ last.freq # TableLowest
  /\ IdleSinceWasSet /\ last.at = last.pre_lasttime + idlewaitms
  /\ last.ret = 1 /\ last.freq_out = TableLowest

\* C7 (event-based confirmation): above the floor, the idlewait-th of
\* idlewait consecutive idle samples that all pass the ratio test, counted
\* from the start of the idle run, returns 1.
C7_EventConfirmation ==
  (ActiveCall /\ SampleIdle /\ SampleRatio /\ HasFloor
     /\ last.freq # TableLowest /\ streak >= idlewait /\ allratio) =>
    last.ret = 1

C9_IdleStreakCount ==
  Called =>
    /\ streak < idlewait => idlecount = streak
    /\ last.path = "event" => streak >= idlewait

\* The idle bookkeeping a call for device d works on: the statics are
\* shared by every device.
IdleSinceOf(d) == idle_lasttime
IdleStreakOf(d) == idlecount

CallFor(d) ==
  \E dev \in Devfreqs, s \in Samples, suspended \in BOOLEAN, freq \in AnyFreq :
    dev.name = d /\ adreno_idler(dev, s[1], s[2], suspended, freq, MaxStreak)

\* C10 (device isolation): a call made for one device never changes the
\* idle bookkeeping of another device.
C10_DeviceIsolation ==
  [][\A a, b \in DevNames :
       (a # b /\ CallFor(a)) =>
         (IdleSinceOf(b)' = IdleSinceOf(b) /\ IdleStreakOf(b)' = IdleStreakOf(b))]_vars

\* C11 (idle window before ramp-down): when the time-based path forces the
\* floor at time t, no non-idle sample, suspended or not, was processed in
\* the window [t - idlewaitms, t]; in particular the sample processed by the
\* call before was not such a sample.
C11_IdleWindow ==
  [][(/\ ActiveCall /\ ~SampleIdle
      /\ last' # last /\ last'.dev = last.dev
      /\ last'.active /\ last'.path = "time"
      /\ Len(last'.dev.freq_table) >= 2
      /\ last'.freq # last'.dev.freq_table[Len(last'.dev.freq_table)])
       => last.at < last'.at - idlewaitms]_vars

\* C12 (malformed table): an active call with a frequency table of fewer
\* than two entries returns 0 without writing *freq on every branch, and
\* reads no table index outside the table.
C12_MalformedTable ==
  (ActiveCall /\ Len(last.dev.freq_table) < 2) =>
    /\ last.ret = 0
    /\ ~last.wrote
    /\ ~last.oob

\* C13 (zero-duration sample): an active call with total_time = 0 is handled
\* as a non-idle sample: it takes the suspend or the bump-up branch, and
\* does not set idle_lasttime or count an idle event.
C13_ZeroDuration ==
  (ActiveCall /\ last.total = 0) =>
    /\ last.path \in {"suspend", "bump"}
    /\ last.pre_lasttime = 0 => idle_lasttime = 0
    /\ idlecount <= last.pre_count

C15_UnconfirmedDefers ==
  (ActiveCall /\ SampleIdle /\ HasFloor /\ last.freq # TableLowest
     /\ (\/ ~SampleRatio
         \/ (/\ last.pre_count < idlewait
             /\ last.at - idle_lasttime < idlewaitms))) =>
    /\ last.ret = 0
    /\ ~last.wrote
    /\ last.freq_out = last.freq

\* A sample failing the ratio test although both the event count and the
\* wait are reached.
C15_Witness ==
  /\ ActiveCall /\ SampleIdle /\ HasFloor /\ last.freq # TableLowest
  /\ ~SampleRatio
  /\ last.pre_count >= idlewait
  /\ IdleSinceWasSet /\ last.at - idle_lasttime >= idlewaitms
  /\ last.ret = 0 /\ ~last.wrote

C18_OnlyFloorFinal ==
  (Called /\ last.wrote /\ HasFloor) =>
    /\ last.ret = 1 => last.freq_out = TableLowest
    /\ (HasBump /\ last.freq_out = TableSecondLowest) => last.ret = 0
    /\ last.freq_out > TableLowest => last.ret = 0

\* The floor forced, and final, from above the floor by the time-based path.
C18_Witness ==
  /\ Called /\ last.wrote /\ HasBump
  /\ last.path = "time"
  /\ last.freq > TableLowest
  /\ last.ret = 1 /\ last.freq_out = TableLowest

\* The latest time the bounded clock reaches.
ClockEnd == now + (MaxTicks - ticks) * (CHOOSE d \in ClockSteps : TRUE)

\* The switch is on, the latest sample was idle and passed the ratio test,
\* and the idle run began early enough for the clock to get idlewaitms past it.
IdleForGood ==
  /\ adreno_idler_active
  /\ ActiveCall /\ SampleIdle /\ SampleRatio
  /\ idle_lasttime + idlewaitms <= ClockEnd

\* C19 (ramp-down is reached and kept): an idle, ratio-passing sample taken
\* idlewaitms or more after idle_lasttime returns 1; and if from some call on
\* the switch stays on and every sample is idle and passes the ratio test
\* while the clock advances, the calls eventually return 1 and go on doing so.
C19_EventuallyFinal ==
  /\ []((ActiveCall /\ SampleIdle /\ SampleRatio /\ IdleSinceWasSet
           /\ last.at >= last.pre_lasttime + idlewaitms) => last.ret = 1)
  /\ (<>[]IdleForGood => <>[](last.ret = 1))

\* Inside such a run, the call that the elapsed wait makes final.
C19_Witness ==
  /\ IdleForGood
  /\ last.path = "time"
  /\ last.at >= last.pre_lasttime + idlewaitms
  /\ last.ret = 1

====
